---- MODULE Spec2Model ----
(***************************************************************************)
(* Performance logger of KuroKim/LoggerProject: one collector loop hosted  *)
(* three ways (a worker thread, an asyncio task, a child process), each    *)
(* behind the same start_logging / stop_logging / update_ui handlers of a  *)
(* Qt main window.  One behaviour of this module is one run of one of the  *)
(* three applications; `variant' says which.                               *)
(***************************************************************************)
EXTENDS Integers, Sequences, FiniteSets, TLC

VARIABLES
    variant,        \* which application runs: "threading", "asyncio", "multiprocessing"
    gui_pc,         \* where the GUI thread is: "idle", "join", "update_ui", "get"
    queue,          \* self.queue as the consumer reads it (Queue / asyncio.Queue / the pipe)
    buffer,         \* multiprocessing.Queue: the child's buffer its feeder thread empties
    stop_event,     \* self.stop_event (threading.Event / asyncio.Event)
    logging_ref,    \* self.logging_thread / logging_task / logging_process: 0 is None
    collectors,     \* every thread / task / process ever created, in creation order
    db,             \* the SQLite file: [created, rows]
    label_status,   \* self.label_status text: "on" / "off"
    label_data,     \* self.label_data: <<>> (no data) or <<the sample shown>>
    timer,          \* self.timer is active
    now,            \* the wall clock read by datetime.now(); no action of Spec advances it
    drained         \* history: every sample update_ui has taken off the queue

vars == <<variant, gui_pc, queue, buffer, stop_event, logging_ref, collectors,
          db, label_status, label_data, timer, now, drained>>

(***************************************************************************)
(* Bounds of the model.                                                    *)
(***************************************************************************)
MaxRuns == 2
MaxCycles == 2

Variants == {"threading", "asyncio", "multiprocessing"}

(***************************************************************************)
(* The sensors (psutil, GPUtil) are opaque: a read returns one of a few    *)
(* values, raises, or never returns.                                       *)
(***************************************************************************)
CpuValues == {10}
MemoryValues == {20}
GpuLists == { <<>>, <<[name |-> "GPU0", load |-> 5]>> }
SensorOutcomes == {"value", "raise", "hang"}

\* Python's None
None == [type |-> "NoneType"]

\* Python values: a str is its token sequence, a list its items.
PyStr(tokens) == [type |-> "str", text |-> tokens]
PyList(items) == [type |-> "list", items |-> items]

GpuNotFound == PyStr(<<"GPU not found">>)

\* the list comprehension without its `if gpus else`
gpu_usage_of_no_sentinel(gpus) ==
    PyList([k \in 1..Len(gpus) |-> <<gpus[k].name, gpus[k].load * 10>>])

\* [(gpu.name, gpu.load * 100) for gpu in gpus] if gpus else "GPU not found"
\* (gpu.load is kept in tenths, so load * 100 is tenths * 10 percent)
gpu_usage_of(gpus) ==
    IF gpus # <<>>
    THEN PyList([k \in 1..Len(gpus) |-> <<gpus[k].name, gpus[k].load * 10>>])
    ELSE GpuNotFound

RECURSIVE ReprItems(_)
ReprItems(items) ==
    IF items = <<>> THEN <<>>
    ELSE <<"(", items[1][1], ",", ToString(items[1][2]), ")">> \o ReprItems(Tail(items))

\* str(gpu_usage): a str is itself, a list is its repr
str(v) ==
    IF v.type = "str" THEN v
    ELSE PyStr(<<"[">> \o ReprItems(v.items) \o <<"]">>)

(***************************************************************************)
(* The Store.                                                              *)
(***************************************************************************)
\* setup_database that drops the table before it creates it
setup_database_recreate(d) == [d EXCEPT !.created = TRUE, !.rows = <<>>]

\* CREATE TABLE IF NOT EXISTS performance (...); commit
setup_database(d) == [d EXCEPT !.created = TRUE]

\* log_to_database with cpu_usage and memory_usage bound to each other's column
T_log_to_database_swapped(d, cpu_usage, memory_usage, gpu_usage, commit) ==
    IF commit
    THEN [d EXCEPT !.rows = Append(@,
             [id |-> Len(d.rows) + 1, timestamp |-> now, cpu_usage |-> memory_usage,
              memory_usage |-> cpu_usage, gpu_usage |-> str(gpu_usage).text])]
    ELSE d

\* threading: INSERT (timestamp, cpu_usage, memory_usage, gpu_usage); commit if asked
T_log_to_database(d, cpu_usage, memory_usage, gpu_usage, commit) ==
    IF commit
    THEN [d EXCEPT !.rows = Append(@,
             [id |-> Len(d.rows) + 1, timestamp |-> now, cpu_usage |-> cpu_usage,
              memory_usage |-> memory_usage, gpu_usage |-> str(gpu_usage).text])]
    ELSE d

\* a thread, task or child not yet run: its locals unbound, and as history, cycle
\* by cycle, what getGPUs() had returned for each sample put (queried), the
\* samples put and the rows appended
NewCollector(pc0) ==
    [pc |-> pc0, must_cancel |-> FALSE, exc |-> "none",
     cpu_usage |-> -1, memory_usage |-> -1, gpus |-> None, gpu_usage |-> None,
     start_time |-> -1, elapsed_time |-> -1,
     queried |-> <<>>, puts |-> <<>>, rows |-> <<>>]

\* the locals of a cycle are dead once the cycle is over (-1: a number not bound)
ClearLocals(c) ==
    [c EXCEPT !.cpu_usage = -1, !.memory_usage = -1, !.gpus = None, !.gpu_usage = None,
              !.start_time = -1, !.elapsed_time = -1]

\* an exception nothing catches ends the thread, the task or the child
Raised(c, what) == [ClearLocals(c) EXCEPT !.pc = "raised", !.exc = what]

\* a sensor call that never returns
Wedged(c) == [ClearLocals(c) EXCEPT !.pc = "wedged"]

RECURSIVE SumPuts(_)
SumPuts(cs) == IF cs = <<>> THEN 0 ELSE Len(cs[1].puts) + SumPuts(Tail(cs))

\* the model stops starting cycles once MaxCycles samples were put
MayCycle == SumPuts(collectors) < MaxCycles

Runs == 1..Len(collectors)

\* total_seconds with its operands the other way round
total_seconds_swapped(end_time, start_time) == start_time - end_time

\* (end_time - start_time).total_seconds()
total_seconds(end_time, start_time) == end_time - start_time

(***************************************************************************)
(* threading_app_2.py                                                      *)
(***************************************************************************)
\* Thread.is_alive()
T_is_alive(c) == c.pc \notin {"exit", "raised"}

T_collect_setup(i) ==
    /\ variant = "threading"
    /\ collectors[i].pc = "setup"
    /\ db' = setup_database(db)
    /\ collectors' = [collectors EXCEPT ![i].pc = "while"]
    /\ UNCHANGED <<variant, gui_pc, queue, buffer, stop_event, logging_ref,
                   label_status, label_data, timer, now, drained>>

\* the loop as `while True:`, which never tests stop_event
T_collect_while_true(i) ==
    /\ variant = "threading"
    /\ collectors[i].pc = "while"
    /\ MayCycle
    /\ collectors' = [collectors EXCEPT ![i].pc = "cpu"]
    /\ UNCHANGED <<variant, gui_pc, queue, buffer, stop_event, logging_ref, db,
                   label_status, label_data, timer, now, drained>>

\* while not stop_event.is_set():
T_collect_while(i) ==
    /\ variant = "threading"
    /\ collectors[i].pc = "while"
    /\ IF stop_event
       THEN collectors' = [collectors EXCEPT ![i].pc = "exit"]
       ELSE /\ MayCycle
            /\ collectors' = [collectors EXCEPT ![i].pc = "cpu"]
    /\ UNCHANGED <<variant, gui_pc, queue, buffer, stop_event, logging_ref, db,
                   label_status, label_data, timer, now, drained>>

\* cpu_usage = psutil.cpu_percent(interval=1)
T_collect_cpu(i) ==
    /\ variant = "threading"
    /\ collectors[i].pc = "cpu"
    /\ \E o \in SensorOutcomes, v \in CpuValues :
         collectors' = [collectors EXCEPT ![i] =
            CASE o = "value" -> [@ EXCEPT !.pc = "memory", !.cpu_usage = v]
              [] o = "raise" -> Raised(@, "sensor")
              [] o = "hang"  -> Wedged(@)]
    /\ UNCHANGED <<variant, gui_pc, queue, buffer, stop_event, logging_ref, db,
                   label_status, label_data, timer, now, drained>>

\* memory_usage = psutil.virtual_memory().percent
T_collect_memory(i) ==
    /\ variant = "threading"
    /\ collectors[i].pc = "memory"
    /\ \E o \in SensorOutcomes, v \in MemoryValues :
         collectors' = [collectors EXCEPT ![i] =
            CASE o = "value" -> [@ EXCEPT !.pc = "gpu", !.memory_usage = v]
              [] o = "raise" -> Raised(@, "sensor")
              [] o = "hang"  -> Wedged(@)]
    /\ UNCHANGED <<variant, gui_pc, queue, buffer, stop_event, logging_ref, db,
                   label_status, label_data, timer, now, drained>>

\* gpus = GPUtil.getGPUs(); gpu_usage = [...] if gpus else "GPU not found"
T_collect_gpu(i) ==
    /\ variant = "threading"
    /\ collectors[i].pc = "gpu"
    /\ \E o \in SensorOutcomes, gpus \in GpuLists :
         collectors' = [collectors EXCEPT ![i] =
            CASE o = "value" -> [@ EXCEPT !.pc = "put", !.gpu_usage = gpu_usage_of(gpus),
                                          !.gpus = PyList(gpus)]
              [] o = "raise" -> Raised(@, "sensor")
              [] o = "hang"  -> Wedged(@)]
    /\ UNCHANGED <<variant, gui_pc, queue, buffer, stop_event, logging_ref, db,
                   label_status, label_data, timer, now, drained>>

\* the loop with a second test of stop_event between queue.put and log_to_database
T_collect_put_then_break(i) ==
    /\ variant = "threading"
    /\ collectors[i].pc = "put"
    /\ LET c == collectors[i]
           data == [timestamp |-> now, cpu_usage |-> c.cpu_usage,
                    memory_usage |-> c.memory_usage, gpu_usage |-> c.gpu_usage]
       IN /\ queue' = Append(queue, data)
          /\ collectors' = [collectors EXCEPT ![i] =
                IF stop_event
                THEN [ClearLocals(@) EXCEPT !.pc = "exit", !.puts = Append(@, data),
                                            !.queried = Append(@, c.gpus.items)]
                ELSE [@ EXCEPT !.pc = "log", !.puts = Append(@, data),
                               !.queried = Append(@, c.gpus.items)]]
    /\ UNCHANGED <<variant, gui_pc, buffer, stop_event, logging_ref, db,
                   label_status, label_data, timer, now, drained>>

\* data = {...}; queue.put(data)
T_collect_put(i) ==
    /\ variant = "threading"
    /\ collectors[i].pc = "put"
    /\ LET c == collectors[i]
           data == [timestamp |-> now, cpu_usage |-> c.cpu_usage,
                    memory_usage |-> c.memory_usage, gpu_usage |-> c.gpu_usage]
       IN /\ queue' = Append(queue, data)
          /\ collectors' = [collectors EXCEPT ![i].pc = "log",
                                              ![i].puts = Append(@, data),
                                              ![i].queried = Append(@, c.gpus.items)]
    /\ UNCHANGED <<variant, gui_pc, buffer, stop_event, logging_ref, db,
                   label_status, label_data, timer, now, drained>>

\* log_to_database(db_name, cpu_usage, memory_usage, gpu_usage, commit=True),
\* which returns or raises (sqlite3.Error); nothing catches what it raises
T_collect_log(i) ==
    /\ variant = "threading"
    /\ collectors[i].pc = "log"
    /\ LET c == collectors[i]
           d == T_log_to_database(db, c.cpu_usage, c.memory_usage, c.gpu_usage, TRUE)
       IN \E raises \in BOOLEAN :
            IF raises
            THEN /\ collectors' = [collectors EXCEPT ![i] = Raised(@, "store")]
                 /\ db' = db
            ELSE /\ db' = d
                 /\ collectors' = [collectors EXCEPT ![i] =
                       [ClearLocals(@) EXCEPT !.pc = "while",
                           !.rows = @ \o SubSeq(d.rows, Len(db.rows) + 1, Len(d.rows))]]
    /\ UNCHANGED <<variant, gui_pc, queue, buffer, stop_event, logging_ref,
                   label_status, label_data, timer, now, drained>>

\* start_logging without its test of self.logging_thread
T_start_logging_unguarded ==
    /\ variant = "threading"
    /\ gui_pc = "idle"
    /\ Len(collectors) < MaxRuns
    /\ label_status' = "on"
    /\ stop_event' = FALSE
    /\ collectors' = Append(collectors, NewCollector("setup"))
    /\ logging_ref' = Len(collectors) + 1
    /\ timer' = TRUE
    /\ UNCHANGED <<variant, gui_pc, queue, buffer, db, label_data, now, drained>>

\* start_logging that tests only whether self.logging_thread is None
T_start_logging_only_none ==
    /\ variant = "threading"
    /\ gui_pc = "idle"
    /\ IF logging_ref = 0
       THEN /\ Len(collectors) < MaxRuns
            /\ label_status' = "on"
            /\ stop_event' = FALSE
            /\ collectors' = Append(collectors, NewCollector("setup"))
            /\ logging_ref' = Len(collectors) + 1
            /\ timer' = TRUE
       ELSE UNCHANGED <<label_status, stop_event, collectors, logging_ref, timer>>
    /\ UNCHANGED <<variant, gui_pc, queue, buffer, db, label_data, now, drained>>

\* start_logging without self.stop_event.clear()
T_start_logging_no_clear ==
    /\ variant = "threading"
    /\ gui_pc = "idle"
    /\ IF logging_ref = 0 \/ ~T_is_alive(collectors[logging_ref])
       THEN /\ Len(collectors) < MaxRuns
            /\ label_status' = "on"
            /\ stop_event' = stop_event
            /\ collectors' = Append(collectors, NewCollector("setup"))
            /\ logging_ref' = Len(collectors) + 1
            /\ timer' = TRUE
       ELSE UNCHANGED <<label_status, stop_event, collectors, logging_ref, timer>>
    /\ UNCHANGED <<variant, gui_pc, queue, buffer, db, label_data, now, drained>>

\* ThreadingLoggerApp.start_logging
T_start_logging ==
    /\ variant = "threading"
    /\ gui_pc = "idle"
    /\ IF logging_ref = 0 \/ ~T_is_alive(collectors[logging_ref])
       THEN /\ Len(collectors) < MaxRuns
            /\ label_status' = "on"
            /\ stop_event' = FALSE
            /\ collectors' = Append(collectors, NewCollector("setup"))
            /\ logging_ref' = Len(collectors) + 1
            /\ timer' = TRUE
       ELSE UNCHANGED <<label_status, stop_event, collectors, logging_ref, timer>>
    /\ UNCHANGED <<variant, gui_pc, queue, buffer, db, label_data, now, drained>>

\* stop_logging with stop_event.set() moved out of its if
T_stop_logging_always_sets ==
    /\ variant = "threading"
    /\ gui_pc = "idle"
    /\ stop_event' = TRUE
    /\ IF logging_ref # 0 /\ T_is_alive(collectors[logging_ref])
       THEN /\ gui_pc' = "join"
            /\ UNCHANGED <<logging_ref, label_status, timer>>
       ELSE /\ logging_ref' = 0
            /\ label_status' = "off"
            /\ timer' = FALSE
            /\ UNCHANGED gui_pc
    /\ UNCHANGED <<variant, queue, buffer, collectors, db, label_data, now, drained>>

\* ThreadingLoggerApp.stop_logging up to its join(), or all of it when there is
\* no live thread
T_stop_logging ==
    /\ variant = "threading"
    /\ gui_pc = "idle"
    /\ IF logging_ref # 0 /\ T_is_alive(collectors[logging_ref])
       THEN /\ stop_event' = TRUE
            /\ gui_pc' = "join"
            /\ UNCHANGED <<logging_ref, label_status, timer>>
       ELSE /\ logging_ref' = 0
            /\ label_status' = "off"
            /\ timer' = FALSE
            /\ UNCHANGED <<stop_event, gui_pc>>
    /\ UNCHANGED <<variant, queue, buffer, collectors, db, label_data, now, drained>>

\* stop_logging that ends by replacing self.queue with a new, empty queue
T_stop_logging_join_new_queue ==
    /\ variant = "threading"
    /\ gui_pc = "join"
    /\ ~T_is_alive(collectors[logging_ref])
    /\ logging_ref' = 0
    /\ label_status' = "off"
    /\ timer' = FALSE
    /\ gui_pc' = "idle"
    /\ queue' = <<>>
    /\ UNCHANGED <<variant, buffer, stop_event, collectors, db, label_data,
                   now, drained>>

\* self.logging_thread.join() returns once the thread has ended; the rest of
\* stop_logging follows
T_stop_logging_join ==
    /\ variant = "threading"
    /\ gui_pc = "join"
    /\ ~T_is_alive(collectors[logging_ref])
    /\ logging_ref' = 0
    /\ label_status' = "off"
    /\ timer' = FALSE
    /\ gui_pc' = "idle"
    /\ UNCHANGED <<variant, queue, buffer, stop_event, collectors, db, label_data,
                   now, drained>>

\* ThreadingLoggerApp.update_ui, one test of its while loop: entered on the
\* timer's timeout, left when queue.empty()
T_update_ui ==
    /\ variant = "threading"
    /\ \/ gui_pc = "idle" /\ timer
       \/ gui_pc = "update_ui"
    /\ IF queue = <<>>
       THEN /\ gui_pc' = "idle"
            /\ UNCHANGED <<queue, label_data, drained>>
       ELSE /\ gui_pc' = "update_ui"
            /\ queue' = Tail(queue)
            /\ label_data' = <<Head(queue)>>
            /\ drained' = Append(drained, Head(queue))
    /\ UNCHANGED <<variant, buffer, stop_event, logging_ref, collectors, db,
                   label_status, timer, now>>

T_Next ==
    \/ T_start_logging
    \/ T_stop_logging
    \/ T_stop_logging_join
    \/ T_update_ui
    \/ \E i \in Runs : T_collect_setup(i)
    \/ \E i \in Runs : T_collect_while(i)
    \/ \E i \in Runs : T_collect_cpu(i)
    \/ \E i \in Runs : T_collect_memory(i)
    \/ \E i \in Runs : T_collect_gpu(i)
    \/ \E i \in Runs : T_collect_put(i)
    \/ \E i \in Runs : T_collect_log(i)

(***************************************************************************)
(* asyncio_app_2.py.  The task and the handlers share the one thread of    *)
(* the qasync event loop: a task runs from one await that suspends it to   *)
(* the next without interruption, and a handler runs to its end.           *)
(***************************************************************************)
\* asyncio, multiprocessing: INSERT (timestamp, cpu_usage, memory_usage, gpu_usage,
\* elapsed_time); commit if asked
A_log_to_database(d, cpu_usage, memory_usage, gpu_usage, elapsed_time, commit) ==
    IF commit
    THEN [d EXCEPT !.rows = Append(@,
             [id |-> Len(d.rows) + 1, timestamp |-> now, cpu_usage |-> cpu_usage,
              memory_usage |-> memory_usage, gpu_usage |-> str(gpu_usage).text,
              elapsed_time |-> elapsed_time])]
    ELSE d

\* Task.done()
A_done(c) == c.pc \in {"finished", "raised", "cancelled"}

\* a sensor call that never returns holds the only thread of the event loop
A_frozen == \E i \in Runs : collectors[i].pc = "wedged"

\* Task.cancel(): CancelledError is thrown into the coroutine at the await it is
\* suspended at, or before its first step
A_cancelled(c) == [ClearLocals(c) EXCEPT !.pc = "cancelled"]

\* the top of the loop: while not stop_event.is_set(): start_time = datetime.now();
\* up to the sleep inside get_cpu_usage()
A_while(c) ==
    IF stop_event THEN [c EXCEPT !.pc = "finished"]
    ELSE [c EXCEPT !.pc = "await_cpu", !.start_time = now]

\* the task's first step: setup_database(db_name), then the top of the loop
A_collect_setup(i) ==
    /\ variant = "asyncio"
    /\ ~A_frozen
    /\ collectors[i].pc = "created"
    /\ IF collectors[i].must_cancel
       THEN /\ collectors' = [collectors EXCEPT ![i] = A_cancelled(@)]
            /\ db' = db
       ELSE /\ stop_event \/ MayCycle
            /\ db' = setup_database(db)
            /\ collectors' = [collectors EXCEPT ![i] = A_while(@)]
    /\ UNCHANGED <<variant, gui_pc, queue, buffer, stop_event, logging_ref,
                   label_status, label_data, timer, now, drained>>

\* get_cpu_usage() after its sleep: psutil.cpu_percent(interval=None); then up to
\* the sleep inside get_memory_usage()
A_collect_cpu(i) ==
    /\ variant = "asyncio"
    /\ ~A_frozen
    /\ collectors[i].pc = "await_cpu"
    /\ IF collectors[i].must_cancel
       THEN collectors' = [collectors EXCEPT ![i] = A_cancelled(@)]
       ELSE \E o \in SensorOutcomes, v \in CpuValues :
              collectors' = [collectors EXCEPT ![i] =
                 CASE o = "value" -> [@ EXCEPT !.pc = "await_memory", !.cpu_usage = v]
                   [] o = "raise" -> Raised(@, "sensor")
                   [] o = "hang"  -> Wedged(@)]
    /\ UNCHANGED <<variant, gui_pc, queue, buffer, stop_event, logging_ref, db,
                   label_status, label_data, timer, now, drained>>

\* get_memory_usage() after its sleep; then up to the sleep inside get_gpu_usage()
A_collect_memory(i) ==
    /\ variant = "asyncio"
    /\ ~A_frozen
    /\ collectors[i].pc = "await_memory"
    /\ IF collectors[i].must_cancel
       THEN collectors' = [collectors EXCEPT ![i] = A_cancelled(@)]
       ELSE \E o \in SensorOutcomes, v \in MemoryValues :
              collectors' = [collectors EXCEPT ![i] =
                 CASE o = "value" -> [@ EXCEPT !.pc = "await_gpu", !.memory_usage = v]
                   [] o = "raise" -> Raised(@, "sensor")
                   [] o = "hang"  -> Wedged(@)]
    /\ UNCHANGED <<variant, gui_pc, queue, buffer, stop_event, logging_ref, db,
                   label_status, label_data, timer, now, drained>>

\* the cycle with a put that suspends the task (as on a queue that can be full):
\* the task is resumed, or cancelled, between the put and log_to_database
A_collect_gpu_put_suspends(i) ==
    /\ variant = "asyncio"
    /\ ~A_frozen
    /\ collectors[i].pc \in {"await_gpu", "await_put"}
    /\ IF collectors[i].must_cancel
       THEN /\ collectors' = [collectors EXCEPT ![i] = A_cancelled(@)]
            /\ UNCHANGED <<queue, db>>
       ELSE IF collectors[i].pc = "await_gpu"
       THEN \E o \in SensorOutcomes, gpus \in GpuLists :
              LET c == collectors[i]
                  gpu_usage == gpu_usage_of(gpus)
                  elapsed_time == total_seconds(now, c.start_time)
                  data == [timestamp |-> now, cpu_usage |-> c.cpu_usage,
                           memory_usage |-> c.memory_usage, gpu_usage |-> gpu_usage,
                           cycle_time |-> elapsed_time]
              IN CASE o = "value" ->
                        /\ queue' = Append(queue, data)
                        /\ db' = db
                        /\ collectors' = [collectors EXCEPT ![i] =
                              [@ EXCEPT !.pc = "await_put",
                                 !.gpu_usage = gpu_usage,
                                 !.elapsed_time = elapsed_time,
                                 !.queried = Append(@, gpus),
                                 !.puts = Append(@, data)]]
                   [] o = "raise" ->
                        /\ collectors' = [collectors EXCEPT ![i] = Raised(@, "sensor")]
                        /\ UNCHANGED <<queue, db>>
                   [] o = "hang" ->
                        /\ collectors' = [collectors EXCEPT ![i] = Wedged(@)]
                        /\ UNCHANGED <<queue, db>>
       ELSE \E raises \in BOOLEAN :
              LET c == collectors[i]
                  d == A_log_to_database(db, c.cpu_usage, c.memory_usage, c.gpu_usage,
                                         c.elapsed_time, TRUE)
              IN /\ queue' = queue
                 /\ IF raises
                    THEN /\ db' = db
                         /\ collectors' = [collectors EXCEPT ![i] = Raised(@, "store")]
                    ELSE /\ db' = d
                         /\ collectors' = [collectors EXCEPT ![i] =
                               [ClearLocals(@) EXCEPT !.pc = "await_sleep",
                                  !.rows = @ \o SubSeq(d.rows, Len(db.rows) + 1, Len(d.rows))]]
    /\ UNCHANGED <<variant, gui_pc, buffer, stop_event, logging_ref,
                   label_status, label_data, timer, now, drained>>

\* get_gpu_usage() after its sleep, then without suspending: elapsed_time, data,
\* await queue.put(data) (the queue is unbounded: put never waits),
\* log_to_database(..., commit=True), print, up to asyncio.sleep(1)
A_collect_gpu(i) ==
    /\ variant = "asyncio"
    /\ ~A_frozen
    /\ collectors[i].pc = "await_gpu"
    /\ IF collectors[i].must_cancel
       THEN /\ collectors' = [collectors EXCEPT ![i] = A_cancelled(@)]
            /\ UNCHANGED <<queue, db>>
       ELSE \E o \in SensorOutcomes, gpus \in GpuLists, raises \in BOOLEAN :
              LET c == collectors[i]
                  gpu_usage == gpu_usage_of(gpus)
                  elapsed_time == total_seconds(now, c.start_time)
                  data == [timestamp |-> now, cpu_usage |-> c.cpu_usage,
                           memory_usage |-> c.memory_usage, gpu_usage |-> gpu_usage,
                           cycle_time |-> elapsed_time]
                  d == A_log_to_database(db, c.cpu_usage, c.memory_usage, gpu_usage,
                                         elapsed_time, TRUE)
              IN CASE o = "value" /\ ~raises ->
                        /\ queue' = Append(queue, data)
                        /\ db' = d
                        /\ collectors' = [collectors EXCEPT ![i] =
                              [ClearLocals(@) EXCEPT !.pc = "await_sleep",
                                 !.queried = Append(@, gpus),
                                 !.puts = Append(@, data),
                                 !.rows = @ \o SubSeq(d.rows, Len(db.rows) + 1, Len(d.rows))]]
                   [] o = "value" /\ raises ->
                        /\ queue' = Append(queue, data)
                        /\ db' = db
                        /\ collectors' = [collectors EXCEPT ![i] =
                              [Raised(@, "store") EXCEPT !.queried = Append(@, gpus),
                                                         !.puts = Append(@, data)]]
                   [] o = "raise" ->
                        /\ collectors' = [collectors EXCEPT ![i] = Raised(@, "sensor")]
                        /\ UNCHANGED <<queue, db>>
                   [] o = "hang" ->
                        /\ collectors' = [collectors EXCEPT ![i] = Wedged(@)]
                        /\ UNCHANGED <<queue, db>>
    /\ UNCHANGED <<variant, gui_pc, buffer, stop_event, logging_ref,
                   label_status, label_data, timer, now, drained>>

\* asyncio.sleep(1) is over: the top of the loop again
A_collect_sleep(i) ==
    /\ variant = "asyncio"
    /\ ~A_frozen
    /\ collectors[i].pc = "await_sleep"
    /\ IF collectors[i].must_cancel
       THEN collectors' = [collectors EXCEPT ![i] = A_cancelled(@)]
       ELSE /\ stop_event \/ MayCycle
            /\ collectors' = [collectors EXCEPT ![i] = A_while(@)]
    /\ UNCHANGED <<variant, gui_pc, queue, buffer, stop_event, logging_ref, db,
                   label_status, label_data, timer, now, drained>>

\* AsyncioLoggerApp.start_logging
A_start_logging ==
    /\ variant = "asyncio"
    /\ ~A_frozen
    /\ gui_pc = "idle"
    /\ IF logging_ref = 0 \/ A_done(collectors[logging_ref])
       THEN /\ Len(collectors) < MaxRuns
            /\ label_status' = "on"
            /\ stop_event' = FALSE
            /\ collectors' = Append(collectors, NewCollector("created"))
            /\ logging_ref' = Len(collectors) + 1
            /\ timer' = TRUE
       ELSE UNCHANGED <<label_status, stop_event, collectors, logging_ref, timer>>
    /\ UNCHANGED <<variant, gui_pc, queue, buffer, db, label_data, now, drained>>

\* stop_logging without self.logging_task.cancel()
A_stop_logging_no_cancel ==
    /\ variant = "asyncio"
    /\ ~A_frozen
    /\ gui_pc = "idle"
    /\ IF logging_ref # 0 /\ ~A_done(collectors[logging_ref])
       THEN stop_event' = TRUE
       ELSE UNCHANGED stop_event
    /\ logging_ref' = 0
    /\ label_status' = "off"
    /\ timer' = FALSE
    /\ UNCHANGED <<variant, gui_pc, queue, buffer, collectors, db, label_data, now,
                   drained>>

\* AsyncioLoggerApp.stop_logging
A_stop_logging ==
    /\ variant = "asyncio"
    /\ ~A_frozen
    /\ gui_pc = "idle"
    /\ IF logging_ref # 0 /\ ~A_done(collectors[logging_ref])
       THEN /\ stop_event' = TRUE
            /\ collectors' = [collectors EXCEPT ![logging_ref].must_cancel = TRUE]
       ELSE UNCHANGED <<stop_event, collectors>>
    /\ logging_ref' = 0
    /\ label_status' = "off"
    /\ timer' = FALSE
    /\ UNCHANGED <<variant, gui_pc, queue, buffer, db, label_data, now, drained>>

\* AsyncioLoggerApp.update_ui: while not queue.empty(): data = queue.get_nowait(); show
A_update_ui ==
    /\ variant = "asyncio"
    /\ ~A_frozen
    /\ gui_pc = "idle"
    /\ timer
    /\ queue' = <<>>
    /\ label_data' = IF queue = <<>> THEN label_data ELSE <<queue[Len(queue)]>>
    /\ drained' = drained \o queue
    /\ UNCHANGED <<variant, gui_pc, buffer, stop_event, logging_ref, collectors, db,
                   label_status, timer, now>>

A_Next ==
    \/ A_start_logging
    \/ A_stop_logging
    \/ A_update_ui
    \/ \E i \in Runs : A_collect_setup(i)
    \/ \E i \in Runs : A_collect_cpu(i)
    \/ \E i \in Runs : A_collect_memory(i)
    \/ \E i \in Runs : A_collect_gpu(i)
    \/ \E i \in Runs : A_collect_sleep(i)

(***************************************************************************)
(* multiprocessing_app.py.  multiprocessing.Queue.put() appends to a       *)
(* buffer inside the child; the child's feeder thread writes the buffer to *)
(* the pipe the parent reads.                                              *)
(***************************************************************************)
\* a message of which only a part reached the pipe before the writer was killed
Torn == [torn |-> TRUE]

\* log_to_database that closes the connection without conn.commit()
P_log_to_database_no_commit(d, cpu_usage, memory_usage, gpu_usage, elapsed_time, commit) == d

\* multiprocessing: INSERT (timestamp, cpu_usage, memory_usage, gpu_usage,
\* elapsed_time); commit if asked
P_log_to_database(d, cpu_usage, memory_usage, gpu_usage, elapsed_time, commit) ==
    IF commit
    THEN [d EXCEPT !.rows = Append(@,
             [id |-> Len(d.rows) + 1, timestamp |-> now, cpu_usage |-> cpu_usage,
              memory_usage |-> memory_usage, gpu_usage |-> str(gpu_usage).text,
              elapsed_time |-> elapsed_time])]
    ELSE d

\* Process.is_alive()
P_is_alive(c) == c.pc \notin {"raised", "terminated"}

P_collect_setup(i) ==
    /\ variant = "multiprocessing"
    /\ collectors[i].pc = "setup"
    /\ db' = setup_database(db)
    /\ collectors' = [collectors EXCEPT ![i].pc = "while"]
    /\ UNCHANGED <<variant, gui_pc, queue, buffer, stop_event, logging_ref,
                   label_status, label_data, timer, now, drained>>

\* while True: start_time = datetime.now()
P_collect_while(i) ==
    /\ variant = "multiprocessing"
    /\ collectors[i].pc = "while"
    /\ MayCycle
    /\ collectors' = [collectors EXCEPT ![i].pc = "cpu", ![i].start_time = now]
    /\ UNCHANGED <<variant, gui_pc, queue, buffer, stop_event, logging_ref, db,
                   label_status, label_data, timer, now, drained>>

\* cpu_usage = psutil.cpu_percent(interval=1)
P_collect_cpu(i) ==
    /\ variant = "multiprocessing"
    /\ collectors[i].pc = "cpu"
    /\ \E o \in SensorOutcomes, v \in CpuValues :
         CASE o = "value" ->
                /\ collectors' = [collectors EXCEPT ![i].pc = "memory",
                                                    ![i].cpu_usage = v]
                /\ UNCHANGED <<queue, buffer>>
           [] o = "raise" ->
                /\ collectors' = [collectors EXCEPT ![i] = Raised(@, "sensor")]
                /\ queue' = queue \o buffer
                /\ buffer' = <<>>
           [] o = "hang" ->
                /\ collectors' = [collectors EXCEPT ![i] = Wedged(@)]
                /\ UNCHANGED <<queue, buffer>>
    /\ UNCHANGED <<variant, gui_pc, stop_event, logging_ref, db,
                   label_status, label_data, timer, now, drained>>

\* memory_usage = psutil.virtual_memory().percent
P_collect_memory(i) ==
    /\ variant = "multiprocessing"
    /\ collectors[i].pc = "memory"
    /\ \E o \in SensorOutcomes, v \in MemoryValues :
         CASE o = "value" ->
                /\ collectors' = [collectors EXCEPT ![i].pc = "gpu",
                                                    ![i].memory_usage = v]
                /\ UNCHANGED <<queue, buffer>>
           [] o = "raise" ->
                /\ collectors' = [collectors EXCEPT ![i] = Raised(@, "sensor")]
                /\ queue' = queue \o buffer
                /\ buffer' = <<>>
           [] o = "hang" ->
                /\ collectors' = [collectors EXCEPT ![i] = Wedged(@)]
                /\ UNCHANGED <<queue, buffer>>
    /\ UNCHANGED <<variant, gui_pc, stop_event, logging_ref, db,
                   label_status, label_data, timer, now, drained>>

\* gpus = GPUtil.getGPUs(); gpu_usage = [...] if gpus else "GPU not found";
\* elapsed_time = (end_time - start_time).total_seconds()
P_collect_gpu(i) ==
    /\ variant = "multiprocessing"
    /\ collectors[i].pc = "gpu"
    /\ \E o \in SensorOutcomes, gpus \in GpuLists :
         CASE o = "value" ->
                /\ collectors' = [collectors EXCEPT ![i].pc = "put",
                                     ![i].gpu_usage = gpu_usage_of(gpus),
                                     ![i].gpus = PyList(gpus),
                                     ![i].elapsed_time =
                                         total_seconds(now, collectors[i].start_time)]
                /\ UNCHANGED <<queue, buffer>>
           [] o = "raise" ->
                /\ collectors' = [collectors EXCEPT ![i] = Raised(@, "sensor")]
                /\ queue' = queue \o buffer
                /\ buffer' = <<>>
           [] o = "hang" ->
                /\ collectors' = [collectors EXCEPT ![i] = Wedged(@)]
                /\ UNCHANGED <<queue, buffer>>
    /\ UNCHANGED <<variant, gui_pc, stop_event, logging_ref, db,
                   label_status, label_data, timer, now, drained>>

\* data = {...}; queue.put(data)
P_collect_put(i) ==
    /\ variant = "multiprocessing"
    /\ collectors[i].pc = "put"
    /\ LET c == collectors[i]
           data == [timestamp |-> now, cpu_usage |-> c.cpu_usage,
                    memory_usage |-> c.memory_usage, gpu_usage |-> c.gpu_usage,
                    cycle_time |-> c.elapsed_time]
       IN /\ buffer' = Append(buffer, data)
          /\ collectors' = [collectors EXCEPT ![i].pc = "log",
                                              ![i].puts = Append(@, data),
                                              ![i].queried = Append(@, c.gpus.items)]
    /\ UNCHANGED <<variant, gui_pc, queue, stop_event, logging_ref, db,
                   label_status, label_data, timer, now, drained>>

\* the loop calling log_to_database without commit=True, so with its default
P_collect_log_default_commit(i) ==
    /\ variant = "multiprocessing"
    /\ collectors[i].pc = "log"
    /\ LET c == collectors[i]
           d == P_log_to_database(db, c.cpu_usage, c.memory_usage, c.gpu_usage,
                                  c.elapsed_time, FALSE)
       IN \E raises \in BOOLEAN :
            IF raises
            THEN /\ collectors' = [collectors EXCEPT ![i] = Raised(@, "store")]
                 /\ queue' = queue \o buffer
                 /\ buffer' = <<>>
                 /\ db' = db
            ELSE /\ db' = d
                 /\ collectors' = [collectors EXCEPT ![i] =
                       [ClearLocals(@) EXCEPT !.pc = "while",
                           !.rows = @ \o SubSeq(d.rows, Len(db.rows) + 1, Len(d.rows))]]
                 /\ UNCHANGED <<queue, buffer>>
    /\ UNCHANGED <<variant, gui_pc, stop_event, logging_ref,
                   label_status, label_data, timer, now, drained>>

\* log_to_database(db_name, cpu_usage, memory_usage, gpu_usage, elapsed_time,
\* commit=True), which returns or raises; then print.  An uncaught exception
\* ends the child, which on its way out joins the feeder thread: what is
\* buffered is written to the pipe
P_collect_log(i) ==
    /\ variant = "multiprocessing"
    /\ collectors[i].pc = "log"
    /\ LET c == collectors[i]
           d == P_log_to_database(db, c.cpu_usage, c.memory_usage, c.gpu_usage,
                                  c.elapsed_time, TRUE)
       IN \E raises \in BOOLEAN :
            IF raises
            THEN /\ collectors' = [collectors EXCEPT ![i] = Raised(@, "store")]
                 /\ queue' = queue \o buffer
                 /\ buffer' = <<>>
                 /\ db' = db
            ELSE /\ db' = d
                 /\ collectors' = [collectors EXCEPT ![i] =
                       [ClearLocals(@) EXCEPT !.pc = "while",
                           !.rows = @ \o SubSeq(d.rows, Len(db.rows) + 1, Len(d.rows))]]
                 /\ UNCHANGED <<queue, buffer>>
    /\ UNCHANGED <<variant, gui_pc, stop_event, logging_ref,
                   label_status, label_data, timer, now, drained>>

\* the feeder thread of a live child writes the oldest buffered sample to the pipe
P_feeder(i) ==
    /\ variant = "multiprocessing"
    /\ P_is_alive(collectors[i])
    /\ i = Len(collectors)
    /\ buffer # <<>>
    /\ queue' = Append(queue, Head(buffer))
    /\ buffer' = Tail(buffer)
    /\ UNCHANGED <<variant, gui_pc, stop_event, logging_ref, collectors, db,
                   label_status, label_data, timer, now, drained>>

\* start_logging without its test of self.logging_process
P_start_logging_unguarded ==
    /\ variant = "multiprocessing"
    /\ gui_pc = "idle"
    /\ Len(collectors) < MaxRuns
    /\ label_status' = "on"
    /\ collectors' = Append(collectors, NewCollector("setup"))
    /\ logging_ref' = Len(collectors) + 1
    /\ timer' = TRUE
    /\ UNCHANGED <<variant, gui_pc, queue, buffer, stop_event, db, label_data, now,
                   drained>>

\* MultiprocessingLoggerApp.start_logging
P_start_logging ==
    /\ variant = "multiprocessing"
    /\ gui_pc = "idle"
    /\ IF logging_ref = 0 \/ ~P_is_alive(collectors[logging_ref])
       THEN /\ Len(collectors) < MaxRuns
            /\ label_status' = "on"
            /\ collectors' = Append(collectors, NewCollector("setup"))
            /\ logging_ref' = Len(collectors) + 1
            /\ timer' = TRUE
       ELSE UNCHANGED <<label_status, collectors, logging_ref, timer>>
    /\ UNCHANGED <<variant, gui_pc, queue, buffer, stop_event, db, label_data, now,
                   drained>>

\* Process.terminate(): SIGTERM ends the child wherever it is, its buffered samples
\* with it, the one its feeder thread was writing possibly half written; a child
\* held in a sensor call that never returns may be beyond the signal's reach
P_terminate(i) ==
    \E reacts \in BOOLEAN, torn \in BOOLEAN :
      IF collectors[i].pc = "wedged" /\ ~reacts
      THEN UNCHANGED <<collectors, queue, buffer>>
      ELSE /\ collectors' = [collectors EXCEPT ![i] =
                                [ClearLocals(@) EXCEPT !.pc = "terminated"]]
           /\ buffer' = <<>>
           /\ queue' = IF buffer # <<>> /\ torn THEN Append(queue, Torn) ELSE queue

\* MultiprocessingLoggerApp.stop_logging up to its join(), or all of it when there
\* is no live child
P_stop_logging ==
    /\ variant = "multiprocessing"
    /\ gui_pc = "idle"
    /\ IF logging_ref # 0 /\ P_is_alive(collectors[logging_ref])
       THEN /\ P_terminate(logging_ref)
            /\ gui_pc' = "join"
            /\ UNCHANGED <<logging_ref, label_status, timer>>
       ELSE /\ logging_ref' = 0
            /\ label_status' = "off"
            /\ timer' = FALSE
            /\ UNCHANGED <<gui_pc, collectors, queue, buffer>>
    /\ UNCHANGED <<variant, stop_event, db, label_data, now, drained>>

\* stop_logging that does not wait for the child to end
P_stop_logging_join_no_wait ==
    /\ variant = "multiprocessing"
    /\ gui_pc = "join"
    /\ logging_ref' = 0
    /\ label_status' = "off"
    /\ timer' = FALSE
    /\ gui_pc' = "idle"
    /\ UNCHANGED <<variant, queue, buffer, stop_event, collectors, db, label_data,
                   now, drained>>

\* self.logging_process.join() returns once the child has ended; the rest of
\* stop_logging follows
P_stop_logging_join ==
    /\ variant = "multiprocessing"
    /\ gui_pc = "join"
    /\ ~P_is_alive(collectors[logging_ref])
    /\ logging_ref' = 0
    /\ label_status' = "off"
    /\ timer' = FALSE
    /\ gui_pc' = "idle"
    /\ UNCHANGED <<variant, queue, buffer, stop_event, collectors, db, label_data,
                   now, drained>>

\* MultiprocessingLoggerApp.update_ui, one test of its while loop: queue.empty() is
\* false as soon as the pipe holds bytes, and queue.get() then waits for a whole
\* message
P_update_ui ==
    /\ variant = "multiprocessing"
    /\ \/ gui_pc = "idle" /\ timer
       \/ gui_pc = "update_ui"
    /\ IF queue = <<>>
       THEN /\ gui_pc' = "idle"
            /\ UNCHANGED <<queue, label_data, drained>>
       ELSE IF Head(queue) = Torn
       THEN /\ gui_pc' = "get"
            /\ UNCHANGED <<queue, label_data, drained>>
       ELSE /\ gui_pc' = "update_ui"
            /\ queue' = Tail(queue)
            /\ label_data' = <<Head(queue)>>
            /\ drained' = Append(drained, Head(queue))
    /\ UNCHANGED <<variant, buffer, stop_event, logging_ref, collectors, db,
                   label_status, timer, now>>

P_Next ==
    \/ P_start_logging
    \/ P_stop_logging
    \/ P_stop_logging_join
    \/ P_update_ui
    \/ \E i \in Runs : P_collect_setup(i)
    \/ \E i \in Runs : P_collect_while(i)
    \/ \E i \in Runs : P_collect_cpu(i)
    \/ \E i \in Runs : P_collect_memory(i)
    \/ \E i \in Runs : P_collect_gpu(i)
    \/ \E i \in Runs : P_collect_put(i)
    \/ \E i \in Runs : P_collect_log(i)
    \/ \E i \in Runs : P_feeder(i)

(***************************************************************************)
(* The three applications after construction.                              *)
(***************************************************************************)
Init ==
    /\ variant \in Variants
    /\ gui_pc = "idle"
    /\ queue = <<>>
    /\ buffer = <<>>
    /\ stop_event = FALSE
    /\ logging_ref = 0
    /\ collectors = <<>>
    /\ db = [created |-> FALSE, rows |-> <<>>]
    /\ label_status = "off"
    /\ label_data = <<>>
    /\ timer = FALSE
    /\ now = 0
    /\ drained = <<>>

Next ==
    \/ T_Next
    \/ A_Next
    \/ P_Next

Spec == Init /\ [][Next]_vars

(***************************************************************************)
(* The collectors under a clock that advances.  datetime.now() is read at  *)
(* the top of a cycle, after the sensor reads, for the sample and for the  *)
(* row; the clock is assumed never to go back.  The drain and the feeder   *)
(* thread read no clock and change nothing a collector reads: they are     *)
(* left to Spec.                                                           *)
(***************************************************************************)
\* the instants the clock shows
Instants == {0, 1}

Tick ==
    /\ now + 1 \in Instants
    /\ now' = now + 1
    /\ UNCHANGED <<variant, gui_pc, queue, buffer, stop_event, logging_ref, collectors,
                   db, label_status, label_data, timer, drained>>

ClockNext ==
    \/ Tick
    \/ T_start_logging
    \/ T_stop_logging
    \/ T_stop_logging_join
    \/ \E i \in Runs : T_collect_setup(i)
    \/ \E i \in Runs : T_collect_while(i)
    \/ \E i \in Runs : T_collect_cpu(i)
    \/ \E i \in Runs : T_collect_memory(i)
    \/ \E i \in Runs : T_collect_gpu(i)
    \/ \E i \in Runs : T_collect_put(i)
    \/ \E i \in Runs : T_collect_log(i)
    \/ A_start_logging
    \/ A_stop_logging
    \/ \E i \in Runs : A_collect_setup(i)
    \/ \E i \in Runs : A_collect_cpu(i)
    \/ \E i \in Runs : A_collect_memory(i)
    \/ \E i \in Runs : A_collect_gpu(i)
    \/ \E i \in Runs : A_collect_sleep(i)
    \/ P_start_logging
    \/ P_stop_logging
    \/ P_stop_logging_join
    \/ \E i \in Runs : P_collect_setup(i)
    \/ \E i \in Runs : P_collect_while(i)
    \/ \E i \in Runs : P_collect_cpu(i)
    \/ \E i \in Runs : P_collect_memory(i)
    \/ \E i \in Runs : P_collect_gpu(i)
    \/ \E i \in Runs : P_collect_put(i)
    \/ \E i \in Runs : P_collect_log(i)

ClockSpec == Init /\ [][ClockNext]_vars

(***************************************************************************)
(* Vocabulary of the properties.                                           *)
(***************************************************************************)
\* the thread is alive / the task is not done / the child is alive
Live(c) ==
    CASE variant = "threading" -> T_is_alive(c)
      [] variant = "asyncio" -> ~A_done(c)
      [] variant = "multiprocessing" -> P_is_alive(c)

\* the collector can still put a sample or append a row
Active(c) == Live(c) /\ ~c.must_cancel

\* the application holds a collector that is running
Running == logging_ref # 0 /\ Live(collectors[logging_ref])

StartLogging == T_start_logging \/ A_start_logging \/ P_start_logging
StopLogging == T_stop_logging \/ A_stop_logging \/ P_stop_logging

IsPrefix(s, t) == Len(s) <= Len(t) /\ SubSeq(t, 1, Len(s)) = s

RECURSIVE IsSubseq(_, _)
IsSubseq(s, t) ==
    IF s = <<>> THEN TRUE
    ELSE IF t = <<>> THEN FALSE
    ELSE IF Head(s) = Head(t) THEN IsSubseq(Tail(s), Tail(t))
    ELSE IsSubseq(s, Tail(t))

RECURSIVE AllPuts(_)
AllPuts(cs) == IF cs = <<>> THEN <<>> ELSE cs[1].puts \o AllPuts(Tail(cs))

RECURSIVE AllRows(_)
AllRows(cs) == IF cs = <<>> THEN <<>> ELSE cs[1].rows \o AllRows(Tail(cs))

\* the (cpu, memory, gpu) a row holds, and those the row of a sample is to hold
RowValues(r) == <<r.cpu_usage, r.memory_usage, r.gpu_usage>>
SampleValues(data) == <<data.cpu_usage, data.memory_usage, str(data.gpu_usage).text>>

\* C1: start_logging called while the application holds a running collector
\* creates no collector and keeps the reference: one collector is active after it.
C1_StartWhileRunningIsNoOp ==
    [][ (Running /\ StartLogging) =>
          /\ collectors' = collectors
          /\ logging_ref' = logging_ref
          /\ Cardinality({i \in 1..Len(collectors') : Active(collectors'[i])}) = 1 ]_vars

C1_Witness ==
    /\ Running
    /\ gui_pc = "idle"
    /\ Len(collectors) = 1
    /\ collectors[1].puts # <<>>

\* C2: stop_logging called while no collector is running returns at once, leaves
\* the Store, the Channel, the stop flag and every collector as they are, and
\* leaves the reference None.
C2_StopWhenNotRunningIsNoOp ==
    [][ (~Running /\ StopLogging) =>
          /\ db' = db
          /\ queue' = queue
          /\ buffer' = buffer
          /\ stop_event' = stop_event
          /\ collectors' = collectors
          /\ logging_ref' = 0
          /\ gui_pc' = "idle" ]_vars

C2_Witness ==
    /\ ~Running
    /\ gui_pc = "idle"
    /\ logging_ref = 0
    /\ label_status = "off"
    /\ ~stop_event
    /\ queue # <<>>
    /\ db.rows # <<>>

\* the run left its loop on stop_logging's request, and stop_logging has returned
EndedByStop(i) ==
    CASE variant = "threading" ->
            collectors[i].pc = "exit" /\ ~(gui_pc = "join" /\ logging_ref = i)
      [] variant = "asyncio" -> collectors[i].must_cancel
      [] OTHER -> FALSE

\* C3: threading and asyncio: a run that stop_logging has ended has committed one
\* row for every sample it put.
C3_GracefulStopLosesNothing ==
    \A i \in Runs : EndedByStop(i) => Len(collectors[i].rows) = Len(collectors[i].puts)

C3_Witness ==
    /\ variant = "threading"
    /\ \E i \in Runs : EndedByStop(i) /\ Len(collectors[i].rows) = 2
    /\ gui_pc = "idle"

\* C4: a collector the application no longer holds (stop_logging has returned, or
\* start_logging has replaced it) puts no sample and appends no row, whatever
\* happens next.
C4_ReleasedCollectorIsQuiet ==
    [][ \A i \in Runs : logging_ref # i =>
          /\ collectors'[i].puts = collectors[i].puts
          /\ collectors'[i].rows = collectors[i].rows ]_vars

\* asyncio: the cancelled task has not yet been resumed and the next run is on
C4_Witness ==
    /\ variant = "asyncio"
    /\ Len(collectors) = 2
    /\ logging_ref = 2
    /\ collectors[1].must_cancel
    /\ collectors[1].pc = "await_gpu"
    /\ collectors[2].puts # <<>>

\* C5: in every run the rows are, cycle by cycle, the values of the samples put,
\* with growing ids; the Channel hands the samples over in the order they were put.
C5_CycleOrder ==
    /\ \A i \in Runs :
         LET c == collectors[i]
         IN /\ IsPrefix([k \in 1..Len(c.rows) |-> RowValues(c.rows[k])],
                        [k \in 1..Len(c.puts) |-> SampleValues(c.puts[k])])
            /\ \A k, l \in 1..Len(c.rows) : k < l => c.rows[k].id < c.rows[l].id
    /\ db.rows = AllRows(collectors)
    /\ IF variant = "multiprocessing"
       THEN IsSubseq(SelectSeq(drained \o queue \o buffer, LAMBDA m : m # Torn),
                     AllPuts(collectors))
       ELSE drained \o queue = AllPuts(collectors)

C5_Witness ==
    \E i \in Runs :
       /\ Len(collectors[i].rows) = 2
       /\ collectors[i].rows[1].gpu_usage # collectors[i].rows[2].gpu_usage
       /\ drained # <<>>

\* C6: no collector is ended by a Store write that failed: the loop goes on to
\* its next cycle.
C6_StoreFailureKeepsLoopRunning ==
    \A i \in Runs : collectors[i].exc # "store"

\* C7: no collector is ended by a sensor read that failed: the cycle goes on with
\* the sentinel in the field.
C7_SensorFailureKeepsLoopRunning ==
    \A i \in Runs : collectors[i].exc # "sensor"

\* C8: multiprocessing: once stop_logging has returned no child is alive, and a
\* child that was terminated has put at most one sample more than it has rows.
C8_TerminateLosesAtMostOne ==
    variant = "multiprocessing" =>
       /\ (gui_pc = "idle" /\ logging_ref = 0) =>
             \A i \in Runs : ~P_is_alive(collectors[i])
       /\ \A i \in Runs : collectors[i].pc = "terminated" =>
             /\ Len(collectors[i].puts) <= Len(collectors[i].rows) + 1
             /\ IsPrefix([k \in 1..Len(collectors[i].rows) |-> RowValues(collectors[i].rows[k])],
                         [k \in 1..Len(collectors[i].puts) |-> SampleValues(collectors[i].puts[k])])

\* the child was terminated between queue.put and the commit of its second cycle
C8_Witness ==
    /\ variant = "multiprocessing"
    /\ gui_pc = "idle"
    /\ logging_ref = 0
    /\ \E i \in Runs :
          /\ collectors[i].pc = "terminated"
          /\ Len(collectors[i].puts) = 2
          /\ Len(collectors[i].rows) = 1

\* C9: threading: stop_logging's wait is bounded: while it waits in join,
\* something can still happen that lets it return.
C9_StopLoggingWaitEnds ==
    (variant = "threading" /\ gui_pc = "join") => ENABLED T_Next

\* C10: multiprocessing: while stop_logging waits in join the child is dead: the
\* termination request, escalated to a kill, has ended it.
C10_TerminatedChildIsDead ==
    (variant = "multiprocessing" /\ gui_pc = "join") =>
        ~P_is_alive(collectors[logging_ref])

\* C11: multiprocessing: update_ui never waits without end on a dead producer:
\* while it waits in queue.get() for the rest of a message whose writer was
\* terminated, a child exists that can still write to the pipe.
C11_UpdateUiNeverWaitsOnDeadProducer ==
    (variant = "multiprocessing" /\ gui_pc = "get") =>
        \E i \in Runs : P_is_alive(collectors[i]) /\ collectors[i].pc # "wedged"

UpdateUi == T_update_ui \/ A_update_ui \/ P_update_ui

\* C12: update_ui does not block; it takes the samples off the head of the
\* Channel in the order they were put and shows the last one taken; it returns
\* only with the Channel empty, and on an empty Channel it returns at once with
\* the label as it was.
C12_DrainTakesAllInOrder ==
    [][ UpdateUi =>
          /\ gui_pc' # "get"
          /\ drained' \o queue' = drained \o queue
          /\ label_data' = IF drained' = drained THEN label_data
                           ELSE <<drained'[Len(drained')]>>
          /\ gui_pc' = "idle" => queue' = <<>>
          /\ queue = <<>> => gui_pc' = "idle" ]_vars

\* the reference is to a collector that ended on its own, and start_logging can
\* be called
EndedOnItsOwn ==
    /\ gui_pc = "idle"
    /\ logging_ref # 0
    /\ ~Live(collectors[logging_ref])

\* start_logging's step that makes a fresh collector the one the application holds
Resumes ==
    /\ StartLogging
    /\ collectors' = Append(collectors,
                            NewCollector(IF variant = "asyncio" THEN "created" ELSE "setup"))
    /\ logging_ref' = Len(collectors')
    /\ label_status' = "on"
    /\ timer'
    /\ ~stop_event'

\* C13: when the application holds a collector that ended on its own, one call of
\* start_logging constructs and starts a fresh collector (as long as the model
\* has a run left).
C13_StartAfterCollectorEndedResumes ==
    (EndedOnItsOwn /\ Len(collectors) < MaxRuns) => ENABLED Resumes

\* the first collector raised, start_logging was called with the reference still
\* set, and the second collector is at work
C13_Witness ==
    /\ Len(collectors) = 2
    /\ collectors[1].pc = "raised"
    /\ ~collectors[1].must_cancel
    /\ logging_ref = 2
    /\ Live(collectors[2])
    /\ collectors[2].puts # <<>>

\* collector i runs setup_database in this step
SetupStep(i) ==
    /\ collectors[i].pc \in {"setup", "created"}
    /\ collectors'[i].pc \in {"while", "await_cpu", "finished"}

\* C14: the Store is append-only: every step leaves the rows there are as they
\* are and in place, a new row's id is greater than the id of the row before it,
\* and setup_database, run at the start of each run, changes no row.
C14_StoreIsAppendOnly ==
    [][ /\ IsPrefix(db.rows, db'.rows)
        /\ \A k \in (Len(db.rows) + 1)..Len(db'.rows) :
              db'.rows[k].id > (IF k = 1 THEN 0 ELSE db'.rows[k - 1].id)
        /\ \A i \in Runs : SetupStep(i) => db'.created /\ db'.rows = db.rows ]_vars

\* the second run has run setup_database on the rows of the first and added its own
C14_Witness ==
    /\ Len(collectors) = 2
    /\ collectors[1].rows # <<>>
    /\ collectors[2].rows # <<>>
    /\ db.rows = collectors[1].rows \o collectors[2].rows

\* log_to_database, called by collector i, returns in this step
LogReturns(i) ==
    \/ collectors[i].pc = "log" /\ collectors'[i].pc = "while"
    \/ collectors[i].pc = "await_gpu" /\ collectors'[i].pc = "await_sleep"

\* C15: when log_to_database returns in the loop the Store holds exactly one row
\* more, the row of the sample of that cycle; the Store's rows change at no other
\* step, so no row waits for a later commit and none is lost when the collector
\* is ended right afterwards.
C15_EachAppendIsCommitted ==
    [][ /\ \A i \in Runs : LogReturns(i) =>
              /\ Len(db'.rows) = Len(db.rows) + 1
              /\ SubSeq(db'.rows, 1, Len(db.rows)) = db.rows
              /\ RowValues(db'.rows[Len(db'.rows)]) =
                    SampleValues(collectors'[i].puts[Len(collectors'[i].puts)])
        /\ (~ \E i \in Runs : LogReturns(i)) => db'.rows = db.rows ]_vars

\* multiprocessing: the child was terminated after log_to_database had returned,
\* and its row is in the Store
C15_Witness ==
    /\ variant = "multiprocessing"
    /\ gui_pc = "idle"
    /\ \E i \in Runs :
          /\ collectors[i].pc = "terminated"
          /\ collectors[i].puts # <<>>
          /\ Len(collectors[i].rows) = Len(collectors[i].puts)
          /\ \A k \in 1..Len(collectors[i].rows) :
                \E l \in 1..Len(db.rows) : db.rows[l] = collectors[i].rows[k]

\* C16: under a clock that never goes back, the timestamps of the samples one run
\* puts, and those of the rows it appends, never decrease from one cycle to the
\* next, and no cycle_time (elapsed_time of a row) is negative.
C16_TimestampsNeverDecrease ==
    \A i \in Runs :
       LET c == collectors[i]
       IN /\ \A k, l \in 1..Len(c.puts) :
                k < l => c.puts[k].timestamp <= c.puts[l].timestamp
          /\ \A k, l \in 1..Len(c.rows) :
                k < l => c.rows[k].timestamp <= c.rows[l].timestamp
          /\ variant # "threading" =>
                /\ \A k \in 1..Len(c.puts) : c.puts[k].cycle_time >= 0
                /\ \A k \in 1..Len(c.rows) : c.rows[k].elapsed_time >= 0

\* the clock advanced inside the second cycle of a run, and the cycle is done
C16_Witness ==
    /\ variant # "threading"
    /\ \E i \in Runs :
          /\ Len(collectors[i].rows) = 2
          /\ collectors[i].puts[2].cycle_time > 0
          /\ collectors[i].puts[1].timestamp < collectors[i].puts[2].timestamp
          /\ collectors[i].rows[1].timestamp < collectors[i].rows[2].timestamp

\* the samples in the Channel, oldest first: those the consumer can read and those
\* still in the child's buffer
Channel == SelectSeq(queue \o buffer, LAMBDA m : m # Torn)

\* the capacities the producer can exceed within the bounds of the model
Capacities == 1..(MaxCycles - 1)

\* the k most recent of the samples s
KMostRecent(s, k) == IF Len(s) <= k THEN s ELSE SubSeq(s, Len(s) - k + 1, Len(s))

\* C17: whatever capacity k the Channel has, once more than k samples were put
\* and none was drained the Channel holds, and a drain yields, exactly the k most
\* recent of them in the order they were put (no child having been terminated
\* with samples in its buffer).
C17_ChannelKeepsKMostRecent ==
    \A k \in Capacities :
       ( /\ drained = <<>>
         /\ SumPuts(collectors) > k
         /\ \A i \in Runs : collectors[i].pc # "terminated" ) =>
            Channel = KMostRecent(AllPuts(collectors), k)

\* C18: in every cycle the sample's row is appended to the Store before the
\* sample is put on the Channel: the samples ever put are never more than the
\* rows ever appended.
C18_StoreBeforeChannel ==
    SumPuts(collectors) <= Len(db.rows)

\* C19: threading: while the stop flag is set no thread begins a cycle (a thread
\* enters no sensor read it was not already in), so no more than the cycle in
\* flight is finished; and when stop_logging's join returns no thread is alive.
C19_NoNewCycleOnceStopIsSet ==
    [][ variant = "threading" =>
          /\ stop_event =>
                \A i \in Runs : collectors'[i].pc = "cpu" => collectors[i].pc = "cpu"
          /\ T_stop_logging_join =>
                \A i \in Runs : ~T_is_alive(collectors'[i]) ]_vars

\* the flag was set during the second cycle, which is now between its put and
\* its append, with stop_logging waiting in join
C19_Witness ==
    /\ variant = "threading"
    /\ gui_pc = "join"
    /\ stop_event
    /\ collectors[logging_ref].pc = "log"
    /\ Len(collectors[logging_ref].puts) = 2

\* the encoding of an empty list
EmptyListText == str(PyList(<<>>)).text

\* the sample field v holds the readings of the devices gpus, one pair a device,
\* in their order
IsReadingsOf(v, gpus) ==
    /\ v.type = "list"
    /\ Len(v.items) = Len(gpus)
    /\ \A j \in 1..Len(gpus) : v.items[j][1] = gpus[j].name

\* C20: the GPU field of a sample, and of its row, is the marker exactly when
\* getGPUs() returned no device in that cycle; otherwise it is the readings of
\* the devices returned, encoded in the row as a list that is not empty: the
\* encoding of an empty list is never stored.
C20_SentinelIffNoDevice ==
    \A i \in Runs :
       LET c == collectors[i]
       IN /\ \A k \in 1..Len(c.puts) :
                /\ (c.puts[k].gpu_usage = GpuNotFound) <=> (c.queried[k] = <<>>)
                /\ c.queried[k] # <<>> => IsReadingsOf(c.puts[k].gpu_usage, c.queried[k])
          /\ \A k \in 1..Len(c.rows) :
                /\ (c.rows[k].gpu_usage = GpuNotFound.text) <=> (c.queried[k] = <<>>)
                /\ c.queried[k] # <<>> =>
                      c.rows[k].gpu_usage = str(gpu_usage_of(c.queried[k])).text
                /\ c.rows[k].gpu_usage # EmptyListText

\* one run has stored a cycle without a device and then a cycle with one
C20_Witness ==
    \E i \in Runs :
       /\ Len(collectors[i].rows) = 2
       /\ collectors[i].queried[1] = <<>>
       /\ collectors[i].queried[2] # <<>>
       /\ collectors[i].rows[1].gpu_usage = GpuNotFound.text
       /\ collectors[i].rows[2].gpu_usage # GpuNotFound.text

\* the collectors that log_to_database ended with an exception
StoreFailed == {i \in Runs : collectors[i].exc = "store"}

\* C21 as stated: asyncio: in every state a callback can observe, as many rows
\* were appended as samples were put.
C21_PutsEqualRows ==
    variant = "asyncio" => SumPuts(collectors) = Len(db.rows)

\* C21 as amended: asyncio: nothing comes between a cycle's put and its append:
\* in every state a callback can observe, each task has appended a row for every
\* sample it put, but for the one sample of a cycle whose log_to_database raised.
C21_PutAndAppendAreOneStep ==
    variant = "asyncio" =>
       /\ \A i \in Runs :
             Len(collectors[i].puts) =
                Len(collectors[i].rows) + (IF i \in StoreFailed THEN 1 ELSE 0)
       /\ SumPuts(collectors) = Len(db.rows) + Cardinality(StoreFailed)

\* stop_logging cancelled a task that had finished a cycle, update_ui has drained
\* its sample, and the append of another task's cycle raised
C21_Witness ==
    /\ variant = "asyncio"
    /\ drained # <<>>
    /\ \E i, j \in Runs :
          /\ collectors[i].pc = "cancelled"
          /\ Len(collectors[i].rows) = 1
          /\ j \in StoreFailed

\* C22: at most one collector can still put a sample or append a row: at most one
\* thread alive, at most one child alive, at most one task neither done nor
\* cancelled.
C22_AtMostOneActiveCollector ==
    Cardinality({i \in Runs : Active(collectors[i])}) <= 1

\* multiprocessing: the first child was terminated and the second is at work
C22_Witness ==
    /\ variant = "multiprocessing"
    /\ Len(collectors) = 2
    /\ collectors[1].pc = "terminated"
    /\ collectors[1].puts # <<>>
    /\ Active(collectors[2])
    /\ collectors[2].puts # <<>>

\* the children stop_logging has terminated
Terminated == {i \in Runs : collectors[i].pc = "terminated"}

\* the samples put that have no row
Unstored == SumPuts(collectors) - Len(db.rows)

\* no child is between the put and the append of a cycle
NoAppendPending == \A i \in Runs : collectors[i].pc # "log"

C24_ChannelOutlivesRuns ==
    [][ (variant # "multiprocessing") =>
          /\ ~UpdateUi => IsPrefix(queue, queue')
          /\ (UpdateUi /\ gui_pc' = "idle") => queue' = <<>>
          /\ (gui_pc = "idle" /\ ~timer) => queue' = queue
          /\ drained' \o queue' = AllPuts(collectors') ]_vars

\* threading: the sample the first run left on the Channel when stop_logging
\* returned is still there, ahead of the sample of the second run
C24_Witness ==
    /\ variant = "threading"
    /\ Len(collectors) = 2
    /\ logging_ref = 2
    /\ collectors[1].pc = "exit"
    /\ collectors[1].puts # <<>>
    /\ collectors[2].puts # <<>>
    /\ drained = <<>>
    /\ queue = collectors[1].puts \o collectors[2].puts

\* stop_logging has not been called since the collector the application holds
\* was started
NoStopSinceStart == logging_ref # 0 /\ gui_pc # "join"

\* C25: threading and asyncio: as long as stop_logging has not been called since
\* the start of the collector the application holds, the stop flag is clear and
\* that collector has not left its loop through the flag; its test of the loop
\* condition takes it into a cycle.
C25_StaleFlagNeverStopsNewRun ==
    [][ (variant # "multiprocessing" /\ NoStopSinceStart) =>
          /\ ~stop_event
          /\ collectors[logging_ref].pc \notin {"exit", "finished"}
          /\ (collectors[logging_ref].pc = "while" /\ T_collect_while(logging_ref)) =>
                collectors'[logging_ref].pc = "cpu"
          /\ (collectors[logging_ref].pc \in {"created", "await_sleep"}
                 /\ ~collectors[logging_ref].must_cancel
                 /\ collectors'[logging_ref].pc # collectors[logging_ref].pc) =>
                collectors'[logging_ref].pc = "await_cpu" ]_vars

\* threading: the first run left through the flag, which was still set when
\* start_logging was called again; the second run has completed a cycle
C25_Witness ==
    /\ variant = "threading"
    /\ Len(collectors) = 2
    /\ collectors[1].pc = "exit"
    /\ NoStopSinceStart
    /\ logging_ref = 2
    /\ collectors[2].rows # <<>>

====
